---- MODULE Spec2Model ----
(***************************************************************************)
(* A model of arcade_queue (src/src/lib.rs): a player queue for arcade     *)
(* games.  The Queue struct holds a game name, the number of players of a  *)
(* round and a VecDeque of player names.  Every public method is one       *)
(* action; the methods that other methods call are operators on the queue  *)
(* value, composed as the code composes them.                              *)
(***************************************************************************)
EXTENDS Integers, Sequences, FiniteSets, TLC

\* ---------------------------------------------------------------- bounds
NumPlayers == 3     \* distinct player names the callers may pass
MaxGroup == 3       \* largest `players` (group size) a queue is built with
MaxRun == 4         \* longest recorded run of consecutive calls of one method
MaxHeld == 2        \* calls over which the caller keeps a get_queue snapshot

PlayerNames == <<"player1", "player2", "player3", "player4", "player5", "player6">>
Players == {PlayerNames[i] : i \in 1..NumPlayers}
Games == {"", "test"}

\* ---------------------------------------------------------------- errors
NoErr == "Ok"
TooLessPlayersError == "TooLessPlayersError"
AlreadyInQueueError == "AlreadyInQueueError"

VARIABLES
    game,       \* Queue.game
    players,    \* Queue.players (u8)
    queue,      \* Queue.queue, head first
    op,         \* name of the method called last ("new" after construction)
    before,     \* Queue.queue as it was when the last call started
    run,        \* the calls of the current run of consecutive calls of `op`:
                \* each [arg, err, val] = argument, error, returned players
    runStart,   \* Queue.queue as it was when the run started
    fromNew,    \* TRUE iff the run started on the freshly constructed queue
    newArg,     \* the arguments Queue::new was called with
    newErr,     \* the result of Queue::new: NoErr or its error
    snapshot,   \* <<>> or <<s>>, s the Vec the caller holds from get_queue:
                \* [owned, items, age], age = calls made since it was returned
    waiting     \* the players waiting, in the order their wait began

vars == <<game, players, queue, op, before, run, runStart, fromNew,
          newArg, newErr, snapshot, waiting>>

\* ---------------------------------------------------------------- helpers
Min(a, b) == IF a <= b THEN a ELSE b
Ceil(m, g) == (m + g - 1) \div g
Range(s) == {s[i] : i \in 1..Len(s)}
Last(s) == s[Len(s)]
Count(s, x) == Cardinality({i \in 1..Len(s) : s[i] = x})
Reverse(s) == [i \in 1..Len(s) |-> s[Len(s) + 1 - i]]

RECURSIVE Flatten(_)
Flatten(ss) == IF ss = <<>> THEN <<>> ELSE Head(ss) \o Flatten(Tail(ss))

\* VecDeque::contains: linear scan by equality
contains(q, p) == \E i \in 1..Len(q) : q[i] = p

pop_front_peek(q) ==
    IF q = <<>> THEN [queue |-> q, val |-> <<>>]
    ELSE [queue |-> q, val |-> <<Head(q)>>]

\* VecDeque::pop_front: Option of the head, and the rest
pop_front(q) ==
    IF q = <<>> THEN [queue |-> q, val |-> <<>>]
    ELSE [queue |-> Tail(q), val |-> <<Head(q)>>]

\* ---------------------------------------------------------------- methods
new_no_check(g, n) == [err |-> NoErr, game |-> g, players |-> n, queue |-> <<>>]

\* Queue::new
new(g, n) ==
    IF n = 0 THEN [err |-> TooLessPlayersError, game |-> g, players |-> 0, queue |-> <<>>]
    ELSE [err |-> NoErr, game |-> g, players |-> n, queue |-> <<>>]

join_unchecked(q, p) == [queue |-> Append(q, p), err |-> NoErr]

join_back_only(q, p) ==
    IF q = <<>> \/ Last(q) # p THEN [queue |-> Append(q, p), err |-> NoErr]
    ELSE [queue |-> q, err |-> AlreadyInQueueError]

join_front(q, p) ==
    IF ~contains(q, p) THEN [queue |-> <<p>> \o q, err |-> NoErr]
    ELSE [queue |-> q, err |-> AlreadyInQueueError]

\* Queue::join
join(q, p) ==
    IF ~contains(q, p) THEN [queue |-> Append(q, p), err |-> NoErr]
    ELSE [queue |-> q, err |-> AlreadyInQueueError]

quit_swap_remove(q, p) ==
    IF ~contains(q, p) THEN q
    ELSE LET i == CHOOSE k \in 1..Len(q) : q[k] = p
         IN  IF i = Len(q) THEN SubSeq(q, 1, Len(q) - 1)
             ELSE SubSeq(q, 1, i - 1) \o <<Last(q)>> \o SubSeq(q, i + 1, Len(q) - 1)

\* Queue::quit: retain(|x| x != player)
quit(q, p) == SelectSeq(q, LAMBDA x : x # p)

nextone_pop_back(q) ==
    IF q = <<>> THEN [queue |-> q, val |-> <<>>]
    ELSE [queue |-> SubSeq(q, 1, Len(q) - 1), val |-> <<Last(q)>>]

\* Queue::nextone
nextone(q) == pop_front(q)

nextone_to_back_no_join(q) ==
    LET r == pop_front(q) IN [queue |-> r.queue, err |-> NoErr, val |-> r.val]

nextone_to_back_push_front(q) ==
    LET r == pop_front(q) IN [queue |-> q, err |-> NoErr, val |-> r.val]

\* Queue::nextone_to_back: `?` returns the error of join with the player
\* already popped
nextone_to_back(q) ==
    LET r == pop_front(q)
    IN  IF r.val # <<>>
        THEN LET j == join(r.queue, r.val[1])
             IN  IF j.err # NoErr
                 THEN [queue |-> j.queue, err |-> j.err, val |-> <<>>]
                 ELSE [queue |-> j.queue, err |-> NoErr, val |-> r.val]
        ELSE [queue |-> r.queue, err |-> NoErr, val |-> r.val]

\* the loop of next_group: n iterations left, result collected so far
RECURSIVE next_group_loop(_, _, _)
next_group_loop(q, n, result) ==
    IF n = 0 THEN [queue |-> q, err |-> NoErr, val |-> result]
    ELSE LET r == nextone(q)
         IN  IF r.val # <<>>
             THEN next_group_loop(r.queue, n - 1, Append(result, r.val[1]))
             ELSE next_group_loop(r.queue, n - 1, result)

next_group_one_less(q, n) == next_group_loop(q, n - 1, <<>>)

\* Queue::next_group: for _ in 0..self.players
next_group(q, n) == next_group_loop(q, n, <<>>)

\* the loop of next_group_to_back: n iterations left, result collected so
\* far; `?` leaves the loop with the player popped and pushed to result only
RECURSIVE next_group_to_back_loop(_, _, _)
next_group_to_back_loop(q, n, result) ==
    IF n = 0 THEN [queue |-> q, err |-> NoErr, val |-> result]
    ELSE LET r == nextone(q)
         IN  IF r.val # <<>>
             THEN LET j == join(r.queue, r.val[1])
                  IN  IF j.err # NoErr
                      THEN [queue |-> j.queue, err |-> j.err, val |-> <<>>]
                      ELSE next_group_to_back_loop(j.queue, n - 1, Append(result, r.val[1]))
             ELSE next_group_to_back_loop(r.queue, n - 1, result)

next_group_to_back_reversed(q, n) ==
    LET r == next_group(q, n)
    IN  [queue |-> r.queue \o Reverse(r.val), err |-> NoErr, val |-> r.val]

next_group_to_back_no_rotate(q, n) ==
    [queue |-> q, err |-> NoErr, val |-> SubSeq(q, 1, Min(n, Len(q)))]

next_group_to_back_once_each(q, n) == next_group_to_back_loop(q, Min(n, Len(q)), <<>>)

\* Queue::next_group_to_back: for _ in 0..self.players
next_group_to_back(q, n) == next_group_to_back_loop(q, n, <<>>)

clone_shared(q) == [owned |-> FALSE, items |-> q]

\* VecDeque::clone: new storage, owned by the caller, with the same items
clone(q) == [owned |-> TRUE, items |-> q]

\* Queue::get_queue: a copy of the deque as a Vec, head first
get_queue(q) == [i \in 1..Len(q) |-> q[i]]

\* the characters of a player name
Digits == <<"1", "2", "3", "4", "5", "6">>
Chars(p) ==
    LET i == CHOOSE k \in 1..Len(PlayerNames) : PlayerNames[k] = p
    IN  <<"p", "l", "a", "y", "e", "r", Digits[i]>>

\* String::push_str, String::push, String::pop on strings as character
\* sequences; pop on the empty string removes nothing
push_str(s, p) == s \o Chars(p)
push(s, c) == Append(s, c)
pop(s) == IF s = <<>> THEN s ELSE SubSeq(s, 1, Len(s) - 1)

\* the loop of format_queue: q still to write, s written so far
RECURSIVE format_queue_loop(_, _)
format_queue_loop(q, s) ==
    IF q = <<>> THEN s
    ELSE format_queue_loop(Tail(q), push(push_str(s, Head(q)), " "))

format_queue_no_pop(q) == format_queue_loop(q, <<>>)

\* Queue::format_queue
format_queue(q) == pop(format_queue_loop(q, <<>>))

\* ---------------------------------------------------------------- actions
Init ==
    \E g \in Games, n \in 0..MaxGroup :
        LET r == new(g, n)
        IN  /\ newArg = [game |-> g, players |-> n]
            /\ newErr = r.err
            /\ snapshot = <<>>
            /\ waiting = <<>>
            /\ game = r.game
            /\ players = r.players
            /\ queue = r.queue
            /\ op = "new"
            /\ before = <<>>
            /\ run = <<>>
            /\ runStart = <<>>
            /\ fromNew = TRUE

\* the caller's snapshot after one more call: kept for MaxHeld calls
Held(s) ==
    IF s # <<>> /\ s[1].age < MaxHeld
    THEN <<[s[1] EXCEPT !.age = @ + 1]>>
    ELSE <<>>

\* w without the first occurrence of x
RemoveFirst(w, x) ==
    IF ~contains(w, x) THEN w
    ELSE LET i == CHOOSE k \in 1..Len(w) : w[k] = x /\ \A l \in 1..(k - 1) : w[l] # x
         IN  SubSeq(w, 1, i - 1) \o SubSeq(w, i + 1, Len(w))

\* w after the players of vals, in order, stopped waiting; with again =
\* TRUE each starts a new wait at once
RECURSIVE Released(_, _, _)
Released(w, vals, again) ==
    IF vals = <<>> THEN w
    ELSE LET x == Head(vals)
             r == RemoveFirst(w, x)
         IN  Released(IF again THEN Append(r, x) ELSE r, Tail(vals), again)

\* who waits after a call of `name` with argument list arg and outcome res
Waiting(w, name, arg, res) ==
    CASE name = "join" -> IF res.err = NoErr THEN Append(w, arg[1]) ELSE w
      [] name = "quit" -> SelectSeq(w, LAMBDA x : x # arg[1])
      [] name \in {"nextone", "next_group"} -> Released(w, res.val, FALSE)
      [] name \in {"nextone_to_back", "next_group_to_back"} -> Released(w, res.val, TRUE)
      [] OTHER -> w

\* one call of method `name` with argument list `arg`, whose outcome is
\* res = [queue, err, val]; no method can be called when new failed
Call(name, arg, res) ==
    /\ newErr = NoErr
    /\ op = name => Len(run) < MaxRun
    /\ waiting' = Waiting(waiting, name, arg, res)
    /\ queue' = res.queue
    /\ before' = queue
    /\ op' = name
    /\ LET c == [arg |-> arg, err |-> res.err, val |-> res.val]
       IN  run' = IF op = name THEN Append(run, c) ELSE <<c>>
    /\ runStart' = IF op = name THEN runStart ELSE queue
    /\ fromNew' = IF op = name THEN fromNew ELSE (op = "new")
    /\ UNCHANGED <<game, players, newArg, newErr>>

Join ==
    \E p \in Players :
        LET r == join(queue, p)
        IN  /\ Call("join", <<p>>, [queue |-> r.queue, err |-> r.err, val |-> <<>>])
            /\ snapshot' = Held(snapshot)

Quit ==
    \E p \in Players :
        /\ Call("quit", <<p>>, [queue |-> quit(queue, p), err |-> NoErr, val |-> <<>>])
        /\ snapshot' = Held(snapshot)

Nextone ==
    LET r == nextone(queue)
    IN  /\ Call("nextone", <<>>, [queue |-> r.queue, err |-> NoErr, val |-> r.val])
        /\ snapshot' = Held(snapshot)

NextoneToBack ==
    /\ Call("nextone_to_back", <<>>, nextone_to_back(queue))
    /\ snapshot' = Held(snapshot)

NextGroup ==
    /\ Call("next_group", <<>>, next_group(queue, players))
    /\ snapshot' = Held(snapshot)

NextGroupToBack ==
    /\ Call("next_group_to_back", <<>>, next_group_to_back(queue, players))
    /\ snapshot' = Held(snapshot)

\* get_queue takes &self: the queue is not changed; the caller holds the Vec
GetQueue ==
    LET c == clone(queue)
    IN  /\ Call("get_queue", <<>>, [queue |-> queue, err |-> NoErr, val |-> get_queue(c.items)])
        /\ snapshot' = <<[owned |-> c.owned, items |-> get_queue(c.items), age |-> 0]>>

\* format_queue takes &self: the queue is not changed
FormatQueue ==
    /\ Call("format_queue", <<>>, [queue |-> queue, err |-> NoErr, val |-> format_queue(queue)])
    /\ snapshot' = Held(snapshot)

Next ==
    \/ Join
    \/ Quit
    \/ Nextone
    \/ NextoneToBack
    \/ NextGroup
    \/ NextGroupToBack
    \/ GetQueue
    \/ FormatQueue

Spec == Init /\ [][Next]_vars

\* the callers that never rotate: join, quit, nextone and next_group only
NextFifo ==
    \/ Join
    \/ Quit
    \/ Nextone
    \/ NextGroup

SpecFifo == Init /\ [][NextFifo]_vars

\* ---------------------------------------------------------------- claims
last == Last(run)
M == Len(runStart)

\* C1: in every reachable state the member sequence holds no player more
\* than once.
C1_NoDuplicates ==
    \A i, j \in 1..Len(queue) : i # j => queue[i] # queue[j]

C1_Witness ==
    /\ op = "next_group_to_back"
    /\ Len(queue) >= 2
    /\ Len(last.val) > Len(queue)

\* C2: join(p) returns AlreadyInQueueError exactly when p was already in the
\* queue, and then the member sequence is unchanged; when p was absent it
\* returns Ok.
C2_JoinDuplicateError ==
    op = "join" =>
        LET p == last.arg[1]
        IN  /\ (last.err = AlreadyInQueueError) <=> contains(before, p)
            /\ last.err = AlreadyInQueueError => queue = before
            /\ ~contains(before, p) => last.err = NoErr

C2_Witness ==
    /\ op = "join"
    /\ last.err = AlreadyInQueueError
    /\ Len(before) >= 2
    /\ Head(before) = last.arg[1]

\* the arguments of the calls of the run that returned Ok, in call order
SuccessfulArgs ==
    LET ok == SelectSeq(run, LAMBDA c : c.err = NoErr)
    IN  [i \in 1..Len(ok) |-> ok[i].arg[1]]

\* C3: after joins only on a new queue, get_queue returns exactly the
\* successfully joined players in join order; each successful join appends
\* at the tail and leaves the existing members in place.
C3_JoinsAppendInOrder ==
    /\ (op = "join" /\ fromNew) => get_queue(queue) = SuccessfulArgs
    /\ (op = "join" /\ last.err = NoErr) =>
           /\ Len(queue) = Len(before) + 1
           /\ queue[Len(queue)] = last.arg[1]
           /\ \A i \in 1..Len(before) : queue[i] = before[i]

C3_Witness ==
    /\ op = "join"
    /\ fromNew
    /\ Len(queue) >= 3
    /\ Len(run) = Len(queue)

\* C4: repeated nextone calls on [p1,...,pk] return p1, ..., pk in order,
\* each call removing exactly the head; every call after the k-th returns
\* None and leaves the queue empty.
C4_NextoneDrainsHeadFirst ==
    op = "nextone" =>
        /\ \A i \in 1..Len(run) :
               run[i].val = IF i <= M THEN <<runStart[i]>> ELSE <<>>
        /\ queue = SubSeq(runStart, Len(run) + 1, M)
        /\ before # <<>> => (last.val = <<before[1]>> /\ queue = Tail(before))
        /\ Len(run) > M => queue = <<>>

C4_Witness ==
    /\ op = "nextone"
    /\ M >= 2
    /\ Len(run) >= M + 2

\* C5: nextone_to_back on [p1,...,pk], k >= 1, returns p1 and leaves
\* [p2,...,pk,p1]; on the empty queue it returns Ok(None) and the queue
\* stays empty.
C5_NextoneToBack ==
    op = "nextone_to_back" =>
        /\ last.err = NoErr
        /\ IF before # <<>>
           THEN /\ last.val = <<before[1]>>
                /\ queue = Tail(before) \o <<before[1]>>
           ELSE /\ last.val = <<>>
                /\ queue = <<>>

C5_Witness ==
    /\ op = "nextone_to_back"
    /\ Len(before) >= 3
    /\ queue # before

\* C6: next_group with group size g on m members returns the first
\* min(g, m) members in order and leaves the other max(0, m - g) members in
\* order; it never errors.
C6_NextGroup ==
    op = "next_group" =>
        LET m == Len(before)
            k == Min(players, m)
        IN  /\ last.err = NoErr
            /\ last.val = SubSeq(before, 1, k)
            /\ queue = SubSeq(before, k + 1, m)
            /\ Len(queue) = IF m >= players THEN m - players ELSE 0

C6_Witness ==
    /\ op = "next_group"
    /\ players >= 2
    /\ Len(before) > players

\* C7: next_group_to_back on at least groupSize members returns the first
\* groupSize members in order and moves them, in that order, to the tail,
\* the following members shifted to the front in unchanged order.
C7_NextGroupToBack ==
    (op = "next_group_to_back" /\ Len(before) >= players) =>
        LET m == Len(before)
        IN  /\ last.err = NoErr
            /\ last.val = SubSeq(before, 1, players)
            /\ queue = SubSeq(before, players + 1, m) \o SubSeq(before, 1, players)

C7_Witness ==
    /\ op = "next_group_to_back"
    /\ players >= 2
    /\ Len(before) > players

\* C8: with 0 < m < groupSize members, next_group_to_back rotates every
\* member exactly once and the final queue order equals the original order.
C8_ShortQueueRotatesOnce ==
    (op = "next_group_to_back" /\ 0 < Len(before) /\ Len(before) < players) =>
        /\ last.val = before
        /\ queue = before

\* the groups returned by the calls of the run, concatenated
Returned == Flatten([i \in 1..Len(run) |-> run[i].val])

\* a run of exactly ceil(m/g) next_group_to_back calls on m >= 1 members
FullRound ==
    /\ op = "next_group_to_back"
    /\ M >= 1
    /\ Len(run) = Ceil(M, players)

\* C9 (as stated): ceil(m/g) consecutive next_group_to_back calls return
\* every original member exactly once, every group of size g except the
\* last, which has the remaining members.  Stated for queues of at least g
\* members, where the short-queue case of C8 plays no part.
C9_FullRoundPartition ==
    (FullRound /\ M >= players) =>
        /\ \A p \in Range(runStart) : Count(Returned, p) = 1
        /\ \A i \in 1..(Len(run) - 1) : Len(run[i].val) = players
        /\ Len(last.val) = M - players * (Len(run) - 1)

\* C9 (amended): each of the ceil(m/g) calls returns exactly g entries; the
\* j-th entry (0-based) of the concatenated groups is the original member at
\* index j mod m, so every original member is returned at least once, and
\* exactly once when g divides m.
C9_FullRoundCyclic ==
    FullRound =>
        /\ \A i \in 1..Len(run) : run[i].err = NoErr /\ Len(run[i].val) = players
        /\ Len(Returned) = players * Len(run)
        /\ \A j \in 1..Len(Returned) : Returned[j] = runStart[((j - 1) % M) + 1]
        /\ \A p \in Range(runStart) : Count(Returned, p) >= 1
        /\ (M % players = 0) => Returned = runStart

C9_Witness ==
    /\ FullRound
    /\ Len(run) >= 2
    /\ M % players # 0

\* C10: quit(p) leaves no occurrence of p and all other members in their
\* previous relative order; when p is absent the member sequence is
\* unchanged (and quit returns nothing, so no error).
C10_Quit ==
    op = "quit" =>
        LET p == last.arg[1]
            pos(x) == CHOOSE i \in 1..Len(before) : before[i] = x
        IN  /\ ~contains(queue, p)
            /\ Range(queue) = Range(before) \ {p}
            /\ Len(queue) = Cardinality(Range(queue))
            /\ \A i, j \in 1..Len(queue) : i < j => pos(queue[i]) < pos(queue[j])
            /\ ~contains(before, p) => queue = before
            /\ last.err = NoErr

C10_Witness ==
    /\ op = "quit"
    /\ Len(before) >= 3
    /\ before[1] = last.arg[1]
    /\ Len(queue) = Len(before) - 1

\* C11: Queue::new(name, 0) fails with TooLessPlayersError and creates no
\* queue (no method is ever called on one); Queue::new(name, n), n >= 1,
\* succeeds with no members and group size n.
C11_New ==
    /\ newArg.players = 0 =>
           /\ newErr = TooLessPlayersError
           /\ op = "new" /\ run = <<>> /\ queue = <<>>
    /\ newArg.players >= 1 =>
           /\ newErr = NoErr
           /\ players = newArg.players
           /\ game = newArg.game
           /\ op = "new" => queue = <<>>

C11_Witness ==
    /\ newArg.players = 0
    /\ newErr = TooLessPlayersError
    /\ op = "new"

\* the place of x in s
Index(s, x) == CHOOSE i \in 1..Len(s) : s[i] = x

\* C12: two players that are in the queue before and after a join, quit,
\* nextone or next_group call (or a read-only call) keep their relative
\* order; only the to-back methods are left free to reorder.
C12_OrderPreserved ==
    op \in {"join", "quit", "nextone", "next_group", "get_queue", "format_queue"} =>
        \A x, y \in Range(before) \cap Range(queue) :
            (Index(before, x) < Index(before, y)) <=> (Index(queue, x) < Index(queue, y))

C12_Witness ==
    /\ op = "quit"
    /\ Len(before) >= 3
    /\ before[2] = last.arg[1]
    /\ Len(queue) = Len(before) - 1

\* what the caller reads through the snapshot it holds
Observed ==
    IF snapshot[1].owned THEN snapshot[1].items ELSE get_queue(queue)

\* C13: get_queue returns the members head first and does not change the
\* queue; a snapshot the caller still holds reads the same after every
\* later call of another method.
C13_Snapshot ==
    /\ [](op = "get_queue" =>
              /\ queue = before
              /\ last.val = queue
              /\ snapshot # <<>>
              /\ Observed = queue)
    /\ [][(snapshot # <<>> /\ snapshot' # <<>> /\ op' # "get_queue")
              => Observed' = Observed]_vars

C13_Witness ==
    /\ snapshot # <<>>
    /\ snapshot[1].age >= 2
    /\ op = "next_group_to_back"
    /\ Len(Observed) >= 2
    /\ Observed # queue

\* the names written one after the other with sep between two of them
RECURSIVE JoinSep(_, _)
JoinSep(names, sep) ==
    IF names = <<>> THEN <<>>
    ELSE IF Len(names) = 1 THEN Chars(names[1])
    ELSE Chars(names[1]) \o sep \o JoinSep(Tail(names), sep)

\* C14 (as stated): format_queue renders the members head first joined by
\* ", " with no trailing separator; the empty queue gives the empty string.
C14_FormatCommaSpace ==
    op = "format_queue" => last.val = JoinSep(before, <<",", " ">>)

\* C14 (amended): format_queue renders the members head first joined by one
\* space with no trailing separator, ["player1", "player2"] as
\* "player1 player2"; the empty queue gives the empty string; the queue is
\* not changed.
C14_FormatSpace ==
    op = "format_queue" =>
        /\ last.val = JoinSep(before, <<" ">>)
        /\ queue = before
        /\ before = <<>> => last.val = <<>>
        /\ before # <<>> => last.val[Len(last.val)] # " "
        /\ before = <<"player1", "player2">> =>
               last.val = <<"p", "l", "a", "y", "e", "r", "1", " ",
                            "p", "l", "a", "y", "e", "r", "2">>

C14_Witness ==
    /\ op = "format_queue"
    /\ queue = <<"player1", "player2">>

\* C15: m >= 1 consecutive nextone_to_back calls, m the number of members,
\* return p1, ..., pm in queue order, each once, and leave the queue in its
\* original order.
C15_FullCycle ==
    (op = "nextone_to_back" /\ M >= 1 /\ Len(run) = M) =>
        /\ \A i \in 1..M : run[i].err = NoErr /\ run[i].val = <<runStart[i]>>
        /\ queue = runStart

C15_Witness ==
    /\ op = "nextone_to_back"
    /\ M >= 3
    /\ Len(run) = M

\* nextone_to_back called up to n times, stopping once the queue is empty
RECURSIVE RepeatNextoneToBack(_, _, _)
RepeatNextoneToBack(q, n, result) ==
    IF n = 0 \/ q = <<>> THEN [queue |-> q, err |-> NoErr, val |-> result]
    ELSE LET r == nextone_to_back(q)
         IN  IF r.err # NoErr THEN [queue |-> r.queue, err |-> r.err, val |-> <<>>]
             ELSE RepeatNextoneToBack(r.queue, n - 1, result \o r.val)

\* C16: one next_group_to_back call gives the returned players and the final
\* queue of nextone_to_back called up to groupSize times, stopping early
\* once the queue is empty.
C16_GroupIsRepeatedSingle ==
    op = "next_group_to_back" =>
        LET e == RepeatNextoneToBack(before, players, <<>>)
        IN  /\ last.err = e.err
            /\ last.val = e.val
            /\ queue = e.queue

C16_Witness ==
    /\ op = "next_group_to_back"
    /\ Len(before) >= 2
    /\ Len(before) < players

\* C17: nextone_to_back and next_group_to_back always return Ok: the join of
\* the player just removed is never rejected, so every player a rotation
\* removed is in the queue again when the call returns.
C17_RotationNeverRejected ==
    op \in {"nextone_to_back", "next_group_to_back"} =>
        /\ last.err = NoErr
        /\ Range(last.val) \subseteq Range(queue)
        /\ Range(before) \subseteq Range(queue)

C17_Witness ==
    /\ op = "nextone_to_back"
    /\ Len(run) >= 2
    /\ Len(queue) >= 2
    /\ last.err = NoErr

\* s rotated left by k places
Rot(s, k) == [i \in 1..Len(s) |-> s[((i - 1 + k) % Len(s)) + 1]]

\* C18: the to-back methods keep the set of members and the length of the
\* queue; on m >= 1 members next_group_to_back returns exactly g entries,
\* the i-th (0-based) the member at index i mod m, and leaves the queue
\* rotated left by g mod m; on the empty queue it returns nothing and the
\* queue stays empty.
C18_GroupRotation ==
    /\ op \in {"nextone_to_back", "next_group_to_back"} =>
           /\ Range(queue) = Range(before)
           /\ Len(queue) = Len(before)
    /\ op = "next_group_to_back" =>
           LET m == Len(before)
           IN  IF m = 0 THEN last.val = <<>> /\ queue = <<>>
               ELSE /\ Len(last.val) = players
                    /\ \A i \in 1..players : last.val[i] = before[((i - 1) % m) + 1]
                    /\ queue = Rot(before, players % m)

C18_Witness ==
    /\ op = "next_group_to_back"
    /\ Len(before) >= 2
    /\ players > Len(before)
    /\ queue # before

\* C19: without rotation, the players nextone and next_group return are
\* those who have waited longest, longest first: nobody is released ahead of
\* a player whose wait began earlier; the queue lists the waiting players in
\* the order their wait began.
C19_StrictFifo ==
    /\ [](get_queue(queue) = waiting)
    /\ [][op' \in {"nextone", "next_group"} =>
              LET v == run'[Len(run')].val
              IN  /\ Len(v) <= Len(waiting)
                  /\ \A i \in 1..Len(v) : v[i] = waiting[i]
                  /\ waiting' = SubSeq(waiting, Len(v) + 1, Len(waiting))]_vars

C19_Witness ==
    /\ op = "next_group"
    /\ ~fromNew
    /\ Len(last.val) >= 2
    /\ Len(waiting) >= 1

\* C20: in a run of next_group_to_back calls on m >= 1 members, the member
\* at place i has been returned once i <= g * calls, so every member has
\* been returned within the first ceil(m/g) calls.
C20_RoundRobin ==
    (op = "next_group_to_back" /\ M >= 1) =>
        /\ \A i \in 1..M : i <= players * Len(run) => contains(Returned, runStart[i])
        /\ Len(run) >= Ceil(M, players) => Range(runStart) \subseteq Range(Returned)

C20_Witness ==
    /\ op = "next_group_to_back"
    /\ players >= 2
    /\ M > players
    /\ Len(run) = Ceil(M, players)
    /\ Range(runStart) \subseteq Range(Returned)

====
